---------------------------- MODULE Spec2Model ----------------------------
(***************************************************************************)
(* Model of examples/test-app.py: the order-processing workload generator  *)
(* and the trace pipeline it drives.                                       *)
(*                                                                         *)
(* The main thread is modelled statement by statement (pc is the source    *)
(* position, exc the exception in flight).  The Tracer, the context stack  *)
(* and the Batch Processor are the imported SDK; their code is not part of *)
(* the source file, so StartSpan / EndSpan / Enqueue and the flush actions *)
(* follow sections 4.1, 4.2 and 5 of the specification.                    *)
(*                                                                         *)
(* Time is a logical clock that advances at every time.sleep call.         *)
(* One KeyboardInterrupt is delivered at most, at any statement of the     *)
(* try block of main.                                                      *)
(***************************************************************************)
EXTENDS Integers, Sequences, FiniteSets

\* ---- bounds -------------------------------------------------------------
\* number of driver-loop iterations explored
MaxOrders == 2
\* batch size threshold of the Batch Processor (512 in the SDK), scaled down
MaxBatchSize == 2

VARIABLES
  pc,             \* source position of the main thread
  exc,            \* exception propagating in the main thread
  signalled,      \* the KeyboardInterrupt has been delivered
  order_counter,  \* main: order_counter
  now,            \* logical clock
  spans,          \* every span ever opened, span_id = index
  stack,          \* context stack of open spans (top = last)
  span,           \* the local variable span of each function's with block
  logicError,     \* a span was closed out of order or mutated after finish
  calls,          \* per process_order invocation: branch taken at line 71, how it ended
  buffer,         \* Batch Processor: finished spans not yet in a batch
  flusher,        \* Batch Processor: per kind of flush, idle or holding the lock
  segment,        \* Batch Processor: per kind of flush, the segment it has read
  inflight,       \* batches handed to the Exporter whose send has not returned
  handed,         \* per span: number of batches it has been put in
  exportCalls,    \* number of batches handed to the Exporter
  lastResult,     \* result of the last export that returned
  flushCalls      \* number of provider.force_flush() calls

vars == <<pc, exc, signalled, order_counter, now, spans, stack, span, logicError, calls,
          buffer, flusher,
          segment, inflight, handed, exportCalls, lastResult,
          flushCalls>>

tracerVars == <<spans, stack, span, logicError>>
bpVars == <<buffer, flusher, segment, inflight, handed, exportCalls,
            lastResult>>

\* the functions that open a span
Functions == {"process_order", "validate_order", "process_payment",
              "schedule_shipment"}

\* ---- sequences ----------------------------------------------------------
Range(s) == {s[i] : i \in 1..Len(s)}

Front(s) == SubSeq(s, 1, Len(s) - 1)

Top(s) == s[Len(s)]

Drop(s, n) == SubSeq(s, n + 1, Len(s))

\* ---- Tracer (specification 4.1) ------------------------------------------
CurrentSpan == IF stack = <<>> THEN 0 ELSE Top(stack)

NewTraceId == Cardinality({i \in 1..Len(spans) : spans[i].parent = 0}) + 1

NewSpanId == Len(spans) + 1

NewSpan(name) ==
  [name |-> name,
   parent |-> CurrentSpan,
   trace_id |-> IF CurrentSpan = 0 THEN NewTraceId ELSE spans[CurrentSpan].trace_id,
   inv |-> order_counter,
   start_time |-> now,
   end_time |-> -1,
   nend |-> 0,
   exit |-> "open",
   status |-> "Unset",
   attributes |-> {},
   events |-> <<>>]

\* start_as_current_span(name).__enter__ in function f
StartSpan(f, name) ==
  /\ spans' = Append(spans, NewSpan(name))
  /\ stack' = Append(stack, NewSpanId)
  /\ span' = [span EXCEPT ![f] = NewSpanId]
  /\ UNCHANGED logicError

\* span.set_attribute(key, ...): rejected once the span is finished
SetAttributes(id, keys) ==
  /\ spans' = IF spans[id].nend = 0
                THEN [spans EXCEPT ![id].attributes = @ \cup keys]
                ELSE spans
  /\ logicError' = (logicError \/ spans[id].nend # 0)
  /\ UNCHANGED <<stack, span>>

\* span.add_event(name, attributes): rejected once the span is finished
AddEvent(id, name, keys) ==
  /\ spans' = IF spans[id].nend = 0
                THEN [spans EXCEPT ![id].events =
                        Append(@, [name |-> name, attributes |-> keys, time |-> now])]
                ELSE spans
  /\ logicError' = (logicError \/ spans[id].nend # 0)
  /\ UNCHANGED <<stack, span>>

FinishedSpan(s, e) ==
  [s EXCEPT !.end_time = now,
            !.nend = @ + 1,
            !.exit = e,
            !.status = IF e # "none" THEN "Error" ELSE "Ok"]

\* flushes that run on their own: timer-triggered, explicit (the
\* size-triggered flush is taken by the enqueue that fills the buffer)
Kinds == {"timer", "force"}

LockHeld == \E k \in Kinds : flusher[k] = "holding"

\* handed[id]: number of batches span id has been put in
HandOver(h, seg) == [id \in DOMAIN h |-> IF id \in Range(seg) THEN h[id] + 1
                                                            ELSE h[id]]

\* an enqueue that never triggers the size flush
Enqueue_NoSizeFlush(id) ==
  /\ buffer' = Append(buffer, id)
  /\ inflight' = inflight
  /\ handed' = [i \in DOMAIN handed \cup {id} |-> IF i = id THEN 0 ELSE handed[i]]
  /\ exportCalls' = exportCalls

\* Batch Processor enqueue (specification 4.2): append the span; a buffer
\* that reaches the maximum size is flushed whole, as one segment whose
\* export runs asynchronously, and the caller returns at once
Enqueue(id) ==
  LET full == Append(buffer, id)
      h == [i \in DOMAIN handed \cup {id} |-> IF i = id THEN 0 ELSE handed[i]]
  IN  IF Len(full) >= MaxBatchSize
        THEN /\ buffer' = <<>>
             /\ inflight' = Append(inflight, full)
             /\ handed' = HandOver(h, full)
             /\ exportCalls' = exportCalls + 1
        ELSE /\ buffer' = full
             /\ inflight' = inflight
             /\ handed' = h
             /\ exportCalls' = exportCalls

\* start_as_current_span(name).__exit__ in function f: finish the span of the
\* scope, pop it from the context stack (it must be the top) and forward it
\* to the Batch Processor
EndSpan(f) ==
  /\ ~LockHeld
  /\ spans' = [spans EXCEPT ![span[f]] = FinishedSpan(@, exc)]
  /\ stack' = IF CurrentSpan = span[f] THEN Front(stack) ELSE stack
  /\ logicError' = (logicError \/ CurrentSpan # span[f])
  /\ span' = [span EXCEPT ![f] = 0]
  /\ Enqueue(span[f])
  /\ UNCHANGED <<flusher, segment, lastResult>>

\* ---- control flow of the main thread --------------------------------------
KI == "KeyboardInterrupt"

MainPcs == {"m_call", "m_except", "m_incr", "m_sleep"}

OrderPcs == {"po_attr", "vo_enter", "pp_enter", "ss_enter", "po_print"}

ValidatePcs == {"vo_attr", "vo_sleep", "vo_event"}

PaymentPcs == {"pp_attr", "pp_sleep", "pp_rand", "pp_fail_attr", "pp_fail_event",
               "pp_raise", "pp_event"}

ShipmentPcs == {"ss_attr", "ss_sleep", "ss_event"}

ExitPcs == {"vo_exit", "pp_exit", "ss_exit", "po_exit"}

HandlerPcs == {"m_kbd", "m_flush", "m_flush_take", "m_flush_wait"}

TryBlock == MainPcs \cup {"po_enter"} \cup OrderPcs \cup ValidatePcs \cup PaymentPcs
              \cup ShipmentPcs \cup ExitPcs

\* where an exception raised at position p is handled next: the __exit__ of
\* the innermost enclosing with block, or the except clauses of main
\* process_payment without a scoped finish: its exceptions unwind straight
\* to the with block of process_order
Unwind_PaymentUnscoped(p) ==
  CASE p \in ValidatePcs -> "vo_exit"
    [] p \in PaymentPcs -> "po_exit"
    [] p \in ShipmentPcs -> "ss_exit"
    [] p \in OrderPcs -> "po_exit"
    [] p \in ExitPcs -> p
    [] OTHER -> "m_kbd"

Unwind(p) ==
  CASE p \in ValidatePcs -> "vo_exit"
    [] p \in PaymentPcs -> "pp_exit"
    [] p \in ShipmentPcs -> "ss_exit"
    [] p \in OrderPcs -> "po_exit"
    [] p \in ExitPcs -> p
    [] OTHER -> "m_kbd"

\* where control goes when process_order is left with exception e (main, 98-106)
\* a driver loop without the except clause of line 100
Dispatch_Uncaught(e) ==
  CASE e = "none" -> "m_incr"
    [] e = "Exception" -> "m_crash"
    [] OTHER -> "m_kbd"

Dispatch(e) ==
  CASE e = "none" -> "m_incr"
    [] e = "Exception" -> "m_except"
    [] OTHER -> "m_kbd"

Cur == Len(calls)

Goto(from, to) == pc = from /\ exc = "none" /\ pc' = to

SetResult(r) == calls' = [calls EXCEPT ![Cur].result = r]

\* ---- main, lines 94-104 ----------------------------------------------------
\* decimal digits of n, most significant first
RECURSIVE Digits(_)
Digits(n) == IF n < 10 THEN <<n>> ELSE Append(Digits(n \div 10), n % 10)

RECURSIVE ZeroPad(_, _)
ZeroPad(d, w) == IF Len(d) >= w THEN d ELSE ZeroPad(<<0>> \o d, w)

\* line 99: f"ORD-{order_counter:05d}"
OrderId(n) == <<"ORD-">> \o ZeroPad(Digits(n), 5)

\* a driver that stops invoking process_order once an export has failed
M_Call_StopOnExportFailure ==
  /\ Goto("m_call", "po_enter")
  /\ order_counter <= MaxOrders
  /\ lastResult # "failed"
  /\ calls' = Append(calls, [order |-> order_counter, branch |-> "none",
                             result |-> "running"])
  /\ UNCHANGED <<exc, signalled, order_counter, now, tracerVars, bpVars, flushCalls>>

M_Call ==
  /\ Goto("m_call", "po_enter")
  /\ order_counter <= MaxOrders
  /\ calls' = Append(calls, [order |-> order_counter, branch |-> "none",
                             result |-> "running"])
  /\ UNCHANGED <<exc, signalled, order_counter, now, tracerVars, bpVars, flushCalls>>

\* a handler after which the counter is not incremented, as if line 103 were
\* inside the inner try block
M_Except_SkipIncrement ==
  /\ pc = "m_except"
  /\ exc = "Exception"
  /\ pc' = "m_sleep"
  /\ exc' = "none"
  /\ UNCHANGED <<signalled, order_counter, now, calls, tracerVars, bpVars, flushCalls>>

M_Except ==
  /\ pc = "m_except"
  /\ exc = "Exception"
  /\ pc' = "m_incr"
  /\ exc' = "none"
  /\ UNCHANGED <<signalled, order_counter, now, calls, tracerVars, bpVars, flushCalls>>

M_Incr ==
  /\ Goto("m_incr", "m_sleep")
  /\ order_counter' = order_counter + 1
  /\ UNCHANGED <<exc, signalled, now, calls, tracerVars, bpVars, flushCalls>>

M_Sleep ==
  /\ Goto("m_sleep", "m_call")
  /\ now' = now + 1
  /\ UNCHANGED <<exc, signalled, order_counter, calls, tracerVars, bpVars, flushCalls>>

\* ---- process_order, lines 37-52 -------------------------------------------
\* process_order opening its span without making it the current span
PO_Enter_NotCurrent ==
  /\ Goto("po_enter", "po_attr")
  /\ spans' = Append(spans, NewSpan("process_order"))
  /\ span' = [span EXCEPT !["process_order"] = NewSpanId]
  /\ UNCHANGED <<stack, logicError>>
  /\ UNCHANGED <<exc, signalled, order_counter, now, calls, bpVars, flushCalls>>

PO_Enter ==
  /\ Goto("po_enter", "po_attr")
  /\ StartSpan("process_order", "process_order")
  /\ UNCHANGED <<exc, signalled, order_counter, now, calls, bpVars, flushCalls>>

PO_Attr ==
  /\ Goto("po_attr", "vo_enter")
  /\ SetAttributes(span["process_order"], {"order.id", "order.value"})
  /\ UNCHANGED <<exc, signalled, order_counter, now, calls, bpVars, flushCalls>>

PO_Print ==
  /\ Goto("po_print", "po_exit")
  /\ UNCHANGED <<exc, signalled, order_counter, now, calls, tracerVars, bpVars, flushCalls>>

\* process_order whose span is finished only when the body returns normally
PO_Exit_NoFinally ==
  /\ pc = "po_exit"
  /\ IF exc = "none" THEN EndSpan("process_order")
                      ELSE UNCHANGED <<tracerVars, bpVars>>
  /\ pc' = Dispatch(exc)
  /\ SetResult(CASE exc = "none" -> "returned"
                  [] exc = "Exception" -> "raised"
                  [] OTHER -> "interrupted")
  /\ UNCHANGED <<exc, signalled, order_counter, now, flushCalls>>

PO_Exit ==
  /\ pc = "po_exit"
  /\ EndSpan("process_order")
  /\ pc' = Dispatch(exc)
  /\ SetResult(CASE exc = "none" -> "returned"
                  [] exc = "Exception" -> "raised"
                  [] OTHER -> "interrupted")
  /\ UNCHANGED <<exc, signalled, order_counter, now, flushCalls>>

\* ---- validate_order, lines 55-60 ------------------------------------------
VO_Enter ==
  /\ Goto("vo_enter", "vo_attr")
  /\ StartSpan("validate_order", "validate_order")
  /\ UNCHANGED <<exc, signalled, order_counter, now, calls, bpVars, flushCalls>>

VO_Attr ==
  /\ Goto("vo_attr", "vo_sleep")
  /\ SetAttributes(span["validate_order"], {"order.id"})
  /\ UNCHANGED <<exc, signalled, order_counter, now, calls, bpVars, flushCalls>>

VO_Sleep ==
  /\ Goto("vo_sleep", "vo_event")
  /\ now' = now + 1
  /\ UNCHANGED <<exc, signalled, order_counter, calls, tracerVars, bpVars, flushCalls>>

VO_Event ==
  /\ Goto("vo_event", "vo_exit")
  /\ AddEvent(span["validate_order"], "Order validated", {})
  /\ UNCHANGED <<exc, signalled, order_counter, now, calls, bpVars, flushCalls>>

\* validate_order whose span is finished only when the body returns normally
VO_Exit_NoFinally ==
  /\ pc = "vo_exit"
  /\ IF exc = "none" THEN EndSpan("validate_order")
                      ELSE UNCHANGED <<tracerVars, bpVars>>
  /\ pc' = IF exc = "none" THEN "pp_enter" ELSE "po_exit"
  /\ UNCHANGED <<exc, signalled, order_counter, now, calls, flushCalls>>

\* validate_order that swallows whatever its body raises
VO_Exit_Swallow ==
  /\ pc = "vo_exit"
  /\ EndSpan("validate_order")
  /\ pc' = "pp_enter"
  /\ exc' = "none"
  /\ UNCHANGED <<signalled, order_counter, now, calls, flushCalls>>

VO_Exit ==
  /\ pc = "vo_exit"
  /\ EndSpan("validate_order")
  /\ pc' = IF exc = "none" THEN "pp_enter" ELSE "po_exit"
  /\ UNCHANGED <<exc, signalled, order_counter, now, calls, flushCalls>>

\* ---- process_payment, lines 63-76 -----------------------------------------
PP_Enter ==
  /\ Goto("pp_enter", "pp_attr")
  /\ StartSpan("process_payment", "process_payment")
  /\ UNCHANGED <<exc, signalled, order_counter, now, calls, bpVars, flushCalls>>

PP_Attr ==
  /\ Goto("pp_attr", "pp_sleep")
  /\ SetAttributes(span["process_payment"], {"order.id", "payment.method"})
  /\ UNCHANGED <<exc, signalled, order_counter, now, calls, bpVars, flushCalls>>

PP_Sleep ==
  /\ Goto("pp_sleep", "pp_rand")
  /\ now' = now + 1
  /\ UNCHANGED <<exc, signalled, order_counter, calls, tracerVars, bpVars, flushCalls>>

\* line 71: random.random() < 0.1
PP_Rand ==
  /\ pc = "pp_rand"
  /\ exc = "none"
  /\ \E fail \in BOOLEAN :
       /\ pc' = IF fail THEN "pp_fail_attr" ELSE "pp_event"
       /\ calls' = [calls EXCEPT ![Cur].branch = IF fail THEN "fail" ELSE "pass"]
  /\ UNCHANGED <<exc, signalled, order_counter, now, tracerVars, bpVars, flushCalls>>

PP_FailAttr ==
  /\ Goto("pp_fail_attr", "pp_fail_event")
  /\ SetAttributes(span["process_payment"], {"error"})
  /\ UNCHANGED <<exc, signalled, order_counter, now, calls, bpVars, flushCalls>>

\* line 73 without its attribute mapping
PP_FailEvent_NoReason ==
  /\ Goto("pp_fail_event", "pp_raise")
  /\ AddEvent(span["process_payment"], "Payment failed", {})
  /\ UNCHANGED <<exc, signalled, order_counter, now, calls, bpVars, flushCalls>>

PP_FailEvent ==
  /\ Goto("pp_fail_event", "pp_raise")
  /\ AddEvent(span["process_payment"], "Payment failed", {"reason"})
  /\ UNCHANGED <<exc, signalled, order_counter, now, calls, bpVars, flushCalls>>

\* process_payment that records the failure and returns instead of raising
PP_Raise_Return ==
  /\ pc = "pp_raise"
  /\ exc = "none"
  /\ exc' = "none"
  /\ pc' = "pp_exit"
  /\ UNCHANGED <<signalled, order_counter, now, calls, tracerVars, bpVars, flushCalls>>

PP_Raise ==
  /\ pc = "pp_raise"
  /\ exc = "none"
  /\ exc' = "Exception"
  /\ pc' = Unwind(pc)
  /\ UNCHANGED <<signalled, order_counter, now, calls, tracerVars, bpVars, flushCalls>>

\* the success event recorded on the validate_order span of the invocation,
\* which is finished by then
PP_Event_OnValidateSpan ==
  /\ Goto("pp_event", "pp_exit")
  /\ AddEvent(CHOOSE i \in 1..Len(spans) :
                spans[i].name = "validate_order" /\ spans[i].inv = calls[Cur].order,
              "Payment processed successfully", {})
  /\ UNCHANGED <<exc, signalled, order_counter, now, calls, bpVars, flushCalls>>

PP_Event ==
  /\ Goto("pp_event", "pp_exit")
  /\ AddEvent(span["process_payment"], "Payment processed successfully", {})
  /\ UNCHANGED <<exc, signalled, order_counter, now, calls, bpVars, flushCalls>>

\* process_payment whose span is finished only when the body returns normally
PP_Exit_NoFinally ==
  /\ pc = "pp_exit"
  /\ IF exc = "none" THEN EndSpan("process_payment")
                      ELSE UNCHANGED <<tracerVars, bpVars>>
  /\ pc' = IF exc = "none" THEN "ss_enter" ELSE "po_exit"
  /\ UNCHANGED <<exc, signalled, order_counter, now, calls, flushCalls>>

\* process_payment that swallows its own failure
PP_Exit_Swallow ==
  /\ pc = "pp_exit"
  /\ EndSpan("process_payment")
  /\ pc' = IF exc = KI THEN "po_exit" ELSE "ss_enter"
  /\ exc' = IF exc = KI THEN KI ELSE "none"
  /\ UNCHANGED <<signalled, order_counter, now, calls, flushCalls>>

PP_Exit ==
  /\ pc = "pp_exit"
  /\ EndSpan("process_payment")
  /\ pc' = IF exc = "none" THEN "ss_enter" ELSE "po_exit"
  /\ UNCHANGED <<exc, signalled, order_counter, now, calls, flushCalls>>

\* ---- schedule_shipment, lines 79-85 ---------------------------------------
SS_Enter ==
  /\ Goto("ss_enter", "ss_attr")
  /\ StartSpan("schedule_shipment", "schedule_shipment")
  /\ UNCHANGED <<exc, signalled, order_counter, now, calls, bpVars, flushCalls>>

SS_Attr ==
  /\ Goto("ss_attr", "ss_sleep")
  /\ SetAttributes(span["schedule_shipment"], {"order.id", "carrier"})
  /\ UNCHANGED <<exc, signalled, order_counter, now, calls, bpVars, flushCalls>>

SS_Sleep ==
  /\ Goto("ss_sleep", "ss_event")
  /\ now' = now + 1
  /\ UNCHANGED <<exc, signalled, order_counter, calls, tracerVars, bpVars, flushCalls>>

\* schedule_shipment that forgets line 85
SS_Event_Missing ==
  /\ Goto("ss_event", "ss_exit")
  /\ UNCHANGED <<exc, signalled, order_counter, now, calls, tracerVars, bpVars,
                 flushCalls>>

SS_Event ==
  /\ Goto("ss_event", "ss_exit")
  /\ AddEvent(span["schedule_shipment"], "Shipment scheduled", {})
  /\ UNCHANGED <<exc, signalled, order_counter, now, calls, bpVars, flushCalls>>

\* schedule_shipment whose span is finished only when the body returns normally
SS_Exit_NoFinally ==
  /\ pc = "ss_exit"
  /\ IF exc = "none" THEN EndSpan("schedule_shipment")
                      ELSE UNCHANGED <<tracerVars, bpVars>>
  /\ pc' = IF exc = "none" THEN "po_print" ELSE "po_exit"
  /\ UNCHANGED <<exc, signalled, order_counter, now, calls, flushCalls>>

SS_Exit ==
  /\ pc = "ss_exit"
  /\ EndSpan("schedule_shipment")
  /\ pc' = IF exc = "none" THEN "po_print" ELSE "po_exit"
  /\ UNCHANGED <<exc, signalled, order_counter, now, calls, flushCalls>>

\* ---- KeyboardInterrupt, lines 96 and 106 ----------------------------------
\* the signal arrives while the main thread is at pc: the statement is
\* abandoned and the exception unwinds from there
\* an interrupt that reaches the handler of main without running the
\* __exit__ of the open with blocks
Interrupt_NoUnwind ==
  /\ pc \in TryBlock
  /\ ~signalled
  /\ signalled' = TRUE
  /\ exc' = KI
  /\ pc' = "m_kbd"
  /\ calls' = IF pc \in MainPcs THEN calls
                                ELSE [calls EXCEPT ![Cur].result = "interrupted"]
  /\ UNCHANGED <<order_counter, now, tracerVars, bpVars, flushCalls>>

Interrupt ==
  /\ pc \in TryBlock
  /\ ~signalled
  /\ signalled' = TRUE
  /\ exc' = KI
  /\ pc' = Unwind(pc)
  /\ calls' = IF pc = "po_enter" THEN [calls EXCEPT ![Cur].result = "interrupted"]
                                  ELSE calls
  /\ UNCHANGED <<order_counter, now, tracerVars, bpVars, flushCalls>>

\* lines 106-108: except KeyboardInterrupt
\* an interrupt handler that forgets line 109
M_Kbd_NoFlush ==
  /\ pc = "m_kbd"
  /\ exc = KI
  /\ pc' = "m_done"
  /\ exc' = "none"
  /\ UNCHANGED <<signalled, order_counter, now, calls, tracerVars, bpVars, flushCalls>>

M_Kbd ==
  /\ pc = "m_kbd"
  /\ exc = KI
  /\ pc' = "m_flush"
  /\ exc' = "none"
  /\ UNCHANGED <<signalled, order_counter, now, calls, tracerVars, bpVars, flushCalls>>

\* ---- Batch Processor (specification 4.2 and 5) ----------------------------
\* a flush that reads its segment without taking the lock
TakeLock_NoMutex(kind) ==
  /\ inflight = <<>>
  /\ flusher' = [flusher EXCEPT ![kind] = "holding"]
  /\ segment' = [segment EXCEPT ![kind] = buffer]

\* a flush of the given kind takes the buffer lock and reads its segment; the
\* worker exports one batch at a time, so it starts no flush during a send
TakeLock(kind) ==
  /\ ~LockHeld
  /\ inflight = <<>>
  /\ flusher' = [flusher EXCEPT ![kind] = "holding"]
  /\ segment' = [segment EXCEPT ![kind] = buffer]

\* the flush holding the lock removes its segment from the buffer, hands it
\* to the Exporter as one batch and releases the lock
FormBatch(kind) ==
  /\ flusher[kind] = "holding"
  /\ inflight' = IF segment[kind] = <<>> THEN inflight
                                         ELSE Append(inflight, segment[kind])
  /\ handed' = HandOver(handed, segment[kind])
  /\ exportCalls' = IF segment[kind] = <<>> THEN exportCalls ELSE exportCalls + 1
  /\ buffer' = Drop(buffer, Len(segment[kind]))
  /\ segment' = [segment EXCEPT ![kind] = <<>>]
  /\ flusher' = [flusher EXCEPT ![kind] = "idle"]

Alive == pc # "m_done"

\* a timer that flushes only a buffer that has reached the maximum size
TimerFlushBegin_OnlyWhenFull ==
  /\ Alive
  /\ Len(buffer) >= MaxBatchSize
  /\ flusher["timer"] = "idle"
  /\ TakeLock("timer")
  /\ UNCHANGED <<pc, exc, signalled, order_counter, now, calls, tracerVars, buffer,
                 inflight, handed, exportCalls, lastResult,
                 flushCalls>>

\* background timer: flush if the buffer is non-empty
TimerFlushBegin ==
  /\ Alive
  /\ buffer # <<>>
  /\ flusher["timer"] = "idle"
  /\ TakeLock("timer")
  /\ UNCHANGED <<pc, exc, signalled, order_counter, now, calls, tracerVars, buffer,
                 inflight, handed, exportCalls, lastResult,
                 flushCalls>>

FlushEnd ==
  /\ Alive
  /\ FormBatch("timer")
  /\ UNCHANGED <<pc, exc, signalled, order_counter, now, calls, tracerVars,
                 lastResult, flushCalls>>

Remove(s, i) == SubSeq(s, 1, i - 1) \o SubSeq(s, i + 1, Len(s))

\* Exporter: the send of in-flight batch i returns; a failed batch is dropped
ExportResult(i, ok) ==
  /\ inflight' = Remove(inflight, i)
  /\ lastResult' = IF ok THEN "ok" ELSE "failed"
  /\ UNCHANGED <<buffer, flusher, segment, handed, exportCalls>>

ExportDone ==
  /\ Alive
  /\ \E i \in 1..Len(inflight) : \E ok \in BOOLEAN : ExportResult(i, ok)
  /\ UNCHANGED <<pc, exc, signalled, order_counter, now, calls, tracerVars,
                 flushCalls>>

\* ---- main, lines 109-110: provider.force_flush() --------------------------
M_Flush ==
  /\ Goto("m_flush", "m_flush_take")
  /\ TakeLock("force")
  /\ flushCalls' = flushCalls + 1
  /\ UNCHANGED <<exc, signalled, order_counter, now, calls, tracerVars, buffer,
                 inflight, handed, exportCalls, lastResult>>

M_FlushTake ==
  /\ Goto("m_flush_take", "m_flush_wait")
  /\ FormBatch("force")
  /\ UNCHANGED <<exc, signalled, order_counter, now, calls, tracerVars, lastResult, flushCalls>>

\* force_flush returns when the in-flight exports are done or its deadline passes
M_FlushReturn ==
  /\ pc = "m_flush_wait"
  /\ exc = "none"
  /\ \E timeout \in BOOLEAN : timeout \/ inflight = <<>>
  /\ pc' = "m_done"
  /\ UNCHANGED <<exc, signalled, order_counter, now, calls, tracerVars, bpVars,
                 flushCalls>>

\* ---- specification --------------------------------------------------------
Init ==
  /\ pc = "m_call"
  /\ exc = "none"
  /\ signalled = FALSE
  /\ order_counter = 1
  /\ now = 0
  /\ spans = <<>>
  /\ stack = <<>>
  /\ span = [f \in Functions |-> 0]
  /\ logicError = FALSE
  /\ calls = <<>>
  /\ buffer = <<>>
  /\ flusher = [k \in Kinds |-> "idle"]
  /\ segment = [k \in Kinds |-> <<>>]
  /\ inflight = <<>>
  /\ handed = <<>>
  /\ exportCalls = 0
  /\ lastResult = "none"
  /\ flushCalls = 0

Next ==
  \/ M_Call \/ M_Except \/ M_Incr \/ M_Sleep
  \/ PO_Enter \/ PO_Attr \/ PO_Print \/ PO_Exit
  \/ VO_Enter \/ VO_Attr \/ VO_Sleep \/ VO_Event \/ VO_Exit
  \/ PP_Enter \/ PP_Attr \/ PP_Sleep \/ PP_Rand \/ PP_FailAttr \/ PP_FailEvent
  \/ PP_Raise \/ PP_Event \/ PP_Exit
  \/ SS_Enter \/ SS_Attr \/ SS_Sleep \/ SS_Event \/ SS_Exit
  \/ Interrupt \/ M_Kbd \/ M_Flush \/ M_FlushTake \/ M_FlushReturn
  \/ TimerFlushBegin \/ FlushEnd \/ ExportDone

Spec == Init /\ [][Next]_vars

\* the main thread takes a step (every action but the signal and the worker)
MainStep ==
  \/ M_Call \/ M_Except \/ M_Incr \/ M_Sleep
  \/ PO_Enter \/ PO_Attr \/ PO_Print \/ PO_Exit
  \/ VO_Enter \/ VO_Attr \/ VO_Sleep \/ VO_Event \/ VO_Exit
  \/ PP_Enter \/ PP_Attr \/ PP_Sleep \/ PP_Rand \/ PP_FailAttr \/ PP_FailEvent
  \/ PP_Raise \/ PP_Event \/ PP_Exit
  \/ SS_Enter \/ SS_Attr \/ SS_Sleep \/ SS_Event \/ SS_Exit
  \/ M_Kbd \/ M_Flush \/ M_FlushTake \/ M_FlushReturn

\* both threads keep running; the signal may never come
Fairness ==
  /\ WF_vars(MainStep)
  /\ WF_vars(TimerFlushBegin)
  /\ WF_vars(FlushEnd)
  /\ WF_vars(ExportDone)

FairSpec == Spec /\ Fairness

\* ---- vocabulary of the properties ------------------------------------------
Ids == 1..Len(spans)

Finished(i) == spans[i].nend > 0

EventNames(i) == {spans[i].events[e].name : e \in 1..Len(spans[i].events)}

\* the spans opened by the k-th invocation of process_order
SpansOf(k) == {i \in Ids : spans[i].inv = calls[k].order}

Named(k, n) == {i \in SpansOf(k) : spans[i].name = n}

RECURSIVE IsAncestor(_, _)
IsAncestor(a, i) ==
  IF spans[i].parent = 0 THEN FALSE
  ELSE spans[i].parent = a \/ IsAncestor(a, spans[i].parent)

Descendants(r) == {i \in Ids : IsAncestor(r, i)}

LoopState ==
  IF pc = "m_done" THEN "Stopped"
  ELSE IF signalled THEN "Stopping"
  ELSE "Running"

\* ---- C1 --------------------------------------------------------------------
\* C1: whenever control is in the driver loop outside process_order (before
\* the call, after a normal return, after a raised payment failure), the
\* context stack of open spans is empty.
C1_StackEmptyAfterOrder ==
  pc \in MainPcs \cup {"po_enter"} => stack = <<>>

\* a failed invocation has completed and its spans are closed
C1_Witness ==
  /\ pc = "m_except"
  /\ calls # <<>>
  /\ calls[Cur].result = "raised"
  /\ Cardinality(SpansOf(Cur)) = 3
  /\ stack = <<>>

\* ---- C2 --------------------------------------------------------------------
\* C2: every span S with a parent P was opened no earlier than P, and once P
\* is finished S is finished too, with S.end_time <= P.end_time.
C2_NoChildOutlivesParent ==
  \A i \in Ids :
    LET p == spans[i].parent IN
      p # 0 =>
        /\ spans[p].start_time <= spans[i].start_time
        /\ Finished(p) => Finished(i) /\ spans[i].end_time <= spans[p].end_time

\* the payment-failure path: a failed payment span and its finished parent
C2_Witness ==
  \E i \in Ids :
    /\ spans[i].name = "process_payment"
    /\ spans[i].exit = "Exception"
    /\ spans[i].parent # 0
    /\ Finished(spans[i].parent)
    /\ spans[spans[i].parent].start_time < spans[i].start_time

\* ---- C3 --------------------------------------------------------------------
WorkflowNames == {"process_order", "validate_order", "process_payment",
                  "schedule_shipment"}

C4_FailureShape ==
  \A k \in 1..Len(calls) :
    /\ calls[k].branch = "fail" => Named(k, "schedule_shipment") = {}
    /\ calls[k].branch = "fail" /\ calls[k].result # "running" =>
         /\ Cardinality(SpansOf(k)) = 3
         /\ \A n \in WorkflowNames \ {"schedule_shipment"} :
              Cardinality(Named(k, n)) = 1
         /\ \A i \in SpansOf(k) : spans[i].nend = 1
    /\ Named(k, "schedule_shipment") # {} => calls[k].branch = "pass"

C4_Witness ==
  \E k \in 1..Len(calls) :
    /\ calls[k].branch = "fail"
    /\ calls[k].result = "raised"
    /\ Cardinality({i \in SpansOf(k) : Finished(i)}) = 3

\* ---- C5 --------------------------------------------------------------------
PaymentEvents == {"Payment failed", "Payment processed successfully"}

FinishedPayments == {i \in Ids : spans[i].name = "process_payment" /\ Finished(i)}

BranchOf(i) == calls[CHOOSE k \in 1..Len(calls) : calls[k].order = spans[i].inv].branch

\* the span carries a "Payment failed" event with a reason, recorded no later
\* than the span finished
HasFailedEvent(i) ==
  \E e \in 1..Len(spans[i].events) :
    /\ spans[i].events[e].name = "Payment failed"
    /\ "reason" \in spans[i].events[e].attributes
    /\ spans[i].events[e].time <= spans[i].end_time

\* C5 as stated: every finished process_payment span has exactly one of the
\* two events, the failed one (with status Error) when the failure branch
\* was taken and the succeeded one otherwise.
C5_Original ==
  \A i \in FinishedPayments :
    /\ BranchOf(i) = "fail" => spans[i].status = "Error" /\ HasFailedEvent(i)
    /\ BranchOf(i) # "fail" =>
         /\ "Payment processed successfully" \in EventNames(i)
         /\ "Payment failed" \notin EventNames(i)
    /\ Cardinality(EventNames(i) \cap PaymentEvents) = 1

\* C5 amended: a process_payment span whose scope is left by the payment
\* failure has status Error and the failed event with its reason; one whose
\* scope is left by normal return has the succeeded event and no failed
\* event; a span whose scope is left by KeyboardInterrupt has at most one of
\* the two events, possibly none.
C5_PaymentEvents ==
  \A i \in FinishedPayments :
    /\ spans[i].exit = "Exception" =>
         /\ BranchOf(i) = "fail"
         /\ spans[i].status = "Error"
         /\ HasFailedEvent(i)
         /\ EventNames(i) \cap PaymentEvents = {"Payment failed"}
    /\ spans[i].exit = "none" =>
         /\ BranchOf(i) = "pass"
         /\ EventNames(i) \cap PaymentEvents = {"Payment processed successfully"}
    /\ spans[i].exit = KI => Cardinality(EventNames(i) \cap PaymentEvents) <= 1
    /\ Len(spans[i].events) <= 1

C5_Witness ==
  \E i \in FinishedPayments :
    /\ spans[i].exit = "Exception"
    /\ spans[i].status = "Error"
    /\ HasFailedEvent(i)

\* ---- C6 --------------------------------------------------------------------
\* the open spans are exactly the spans of the context stack, and no span
\* has been finished twice
OpenSpansOnStack ==
  \A i \in Ids :
    /\ spans[i].nend <= 1
    /\ spans[i].nend = 0 <=> i \in Range(stack)

\* C6: on every exit path (normal return, payment failure, interrupt) each
\* opened span is finished exactly once: a span is open only while its scope
\* is on the context stack, never finished twice, and the stack always
\* empties again, so no span stays open forever.
C6_FinishedExactlyOnce ==
  /\ []OpenSpansOnStack
  /\ []<>(stack = <<>>)

\* an invocation left by the interrupt with two scopes open, both finished
C6_Witness ==
  \E k \in 1..Len(calls) :
    /\ calls[k].result = "interrupted"
    /\ Cardinality(SpansOf(k)) >= 2
    /\ \A i \in SpansOf(k) : spans[i].nend = 1
    /\ stack = <<>>

\* ---- C7 --------------------------------------------------------------------
\* C7: while no interrupt has been signalled the loop is Running inside its
\* try block, and every invocation of process_order that ended, by return or
\* by a raised payment failure, is followed by the next invocation (or by the
\* signal).
C7_FailureKeepsLoopRunning ==
  /\ [](~signalled => LoopState = "Running" /\ pc \in TryBlock)
  /\ \A k \in 1..(MaxOrders - 1) :
       (Len(calls) = k /\ calls[k].result \in {"raised", "returned"})
         ~> (signalled \/ Len(calls) = k + 1)

\* the invocation after a failed one has begun
C7_Witness ==
  /\ Len(calls) >= 2
  /\ calls[Len(calls) - 1].result = "raised"
  /\ pc = "po_enter"
  /\ ~signalled

\* ---- C8 --------------------------------------------------------------------
\* C8 as stated: the loop never goes from Running to Stopping while a
\* process_order invocation has a span open.
C8_Original ==
  [][(LoopState = "Running" /\ LoopState' = "Stopping") => stack = <<>>]_vars

\* C8 amended: the signal is observed at whatever statement the main thread
\* is at, also inside process_order with spans open; from then on the
\* iteration runs none of its remaining steps: no span is opened, no
\* attribute or event is recorded, open spans are only finished.
C8_SignalAbandonsIteration ==
  [][signalled =>
       /\ Len(spans') = Len(spans)
       /\ Len(stack') <= Len(stack)
       /\ \A i \in Ids : /\ spans'[i].attributes = spans[i].attributes
                           /\ spans'[i].events = spans[i].events]_vars

\* the signal arrived inside a child step: two spans open, steps remaining
C8_Witness ==
  /\ signalled
  /\ exc = KI
  /\ Len(stack) = 2
  /\ pc \in {"vo_exit", "pp_exit"}

\* ---- C9 --------------------------------------------------------------------
\* C9: after the signal no invocation of process_order begins; force_flush
\* is called at most once; Stopped is entered only from the wait of that one
\* flush; and Stopped is eventually reached.
C9_StopFlushesOnce ==
  /\ [][signalled => Len(calls') = Len(calls)]_vars
  /\ [](flushCalls <= 1)
  /\ [][pc' = "m_done" /\ pc # "m_done"
          => pc = "m_flush_wait" /\ flushCalls = 1]_vars
  /\ signalled ~> (pc = "m_done" /\ flushCalls = 1)

\* Stopped after a flush that handed a batch to the Exporter
C9_Witness ==
  /\ pc = "m_done"
  /\ flushCalls = 1
  /\ \E id \in DOMAIN handed : handed[id] = 1
  /\ buffer = <<>>

\* ---- C10 -------------------------------------------------------------------
Count(seq, id) == Cardinality({j \in 1..Len(seq) : seq[j] = id})

InBuffer(id) == id \in Range(buffer)

InFlight(id) == \E b \in 1..Len(inflight) : id \in Range(inflight[b])

\* every enqueued span is in the buffer or has been put in exactly one batch
OneBatchPerSpan ==
  \A id \in DOMAIN handed :
    /\ handed[id] <= 1
    /\ InBuffer(id) <=> handed[id] = 0
    /\ Count(buffer, id) <= 1
    /\ Cardinality({b \in 1..Len(inflight) : id \in Range(inflight[b])}) <= 1
    /\ InFlight(id) => handed[id] = 1

\* a span leaves the buffer only into a batch, and a batch leaves the
\* Exporter only with the result of its send
LeavesOnlyByExport ==
  \A id \in DOMAIN handed :
    /\ InBuffer(id) /\ ~InBuffer(id)' => InFlight(id)'
    /\ InFlight(id) /\ ~InFlight(id)' =>
         /\ Len(inflight') = Len(inflight) - 1
         /\ lastResult' \in {"ok", "failed"}
         /\ ~InBuffer(id)'

SizeFlushOnFull ==
  \A id \in DOMAIN handed' \ DOMAIN handed :
    Len(buffer) + 1 >= MaxBatchSize =>
      /\ buffer' = <<>>
      /\ inflight' = Append(inflight, Append(buffer, id))
      /\ exportCalls' = exportCalls + 1
      /\ pc' # pc

OutOfBufferIsHanded ==
  \A id \in DOMAIN handed : InBuffer(id) \/ handed[id] >= 1

\* C12: with a fair background timer every enqueued span is eventually
\* handed to the Exporter in a batch, and a non-empty buffer is always
\* eventually flushed, whether or not the size threshold is reached.
C12_EventuallyHandedOver ==
  /\ []OutOfBufferIsHanded
  /\ (buffer # <<>>) ~> (buffer = <<>>)

\* a single span, below the threshold, was put in a batch by the timer
C12_Witness ==
  /\ MaxBatchSize > 1
  /\ DOMAIN handed # {}
  /\ \A id \in DOMAIN handed : handed[id] = 1
  /\ Cardinality(DOMAIN handed) = 1
  /\ exportCalls = 1
  /\ flushCalls = 0
  /\ pc \in TryBlock

\* ---- C13 ------------------------------------------------------------------
\* the step is the return of a failed export
ExportFailed == Len(inflight') < Len(inflight) /\ lastResult' = "failed"

\* the failed batch is gone: nothing re-enters the buffer, nothing is handed
\* over again, and the main thread is where it was, with no exception raised
FailureDropsBatch ==
  ExportFailed =>
    /\ buffer' = buffer
    /\ handed' = handed
    /\ exportCalls' = exportCalls
    /\ \A id \in DOMAIN handed : InFlight(id) /\ ~InFlight(id)' => handed[id]' = 1
    /\ pc' = pc
    /\ exc' = exc

\* C13: a failed batch is dropped, none of its spans is put back in the
\* buffer or in a second batch, and the failure neither blocks nor ends the
\* driver loop: the next process_order invocation starts unless the stop
\* signal arrives.
C13_ExportFailureContained ==
  /\ [][FailureDropsBatch]_vars
  /\ [](\A id \in DOMAIN handed : handed[id] <= 1 /\ (handed[id] = 1 => ~InBuffer(id)))
  /\ (lastResult = "failed" /\ pc = "m_sleep" /\ order_counter <= MaxOrders)
       ~> (pc = "po_enter" \/ signalled)

\* an export failed during the first invocation and a later invocation runs
C13_Witness ==
  /\ lastResult = "failed"
  /\ Len(calls) = 2
  /\ calls[1].result \in {"returned", "raised"}
  /\ pc \in OrderPcs \cup PaymentPcs
  /\ \E id \in DOMAIN handed : handed[id] = 1 /\ ~InFlight(id) /\ ~InBuffer(id)

\* ---- C14 ------------------------------------------------------------------
\* the statements that call set_attribute or add_event
MutationPcs == {"po_attr", "vo_attr", "vo_event", "pp_attr", "pp_fail_attr",
                "pp_fail_event", "pp_event", "ss_attr", "ss_event"}

\* a finished span keeps every field: attributes, events, status, end time
FrozenAfterFinish ==
  \A i \in Ids : Finished(i) => spans'[i] = spans[i]

\* a set_attribute / add_event statement that completes is recorded, not
\* rejected: its target span was open
MutationAccepted ==
  (pc \in MutationPcs /\ pc' # pc /\ exc' = "none") =>
    /\ spans' # spans
    /\ logicError' = logicError
    /\ \A i \in Ids : spans'[i] # spans[i] => spans[i].nend = 0 /\ i \in Range(stack)

\* C14: no attribute, event or status of a span changes once it is finished,
\* and every set_attribute / add_event of the workflow steps is applied to a
\* span that is still open.
C14_ImmutableAfterFinish ==
  [][FrozenAfterFinish /\ MutationAccepted]_vars

\* the payment step has recorded its attributes after validate_order's span
\* was finished with its own attribute and event
C14_Witness ==
  /\ pc = "pp_sleep"
  /\ \E v \in Named(Cur, "validate_order") :
        /\ Finished(v)
        /\ spans[v].attributes # {}
        /\ spans[v].events # <<>>
  /\ \E q \in Named(Cur, "process_payment") :
        ~Finished(q) /\ spans[q].attributes # {}

\* ---- C15 ------------------------------------------------------------------
\* position of a span in the workflow of its invocation
Rank(i) ==
  CASE spans[i].name = "validate_order" -> 1
    [] spans[i].name = "process_payment" -> 2
    [] spans[i].name = "schedule_shipment" -> 3
    [] OTHER -> 4

\* the span enqueued by the step is the one the step finishes and pops; the
\* spans of its invocation that come earlier in the workflow are enqueued
\* already, the later ones are not, and a root has all its children enqueued
EnqueueInPopOrder ==
  \A id \in DOMAIN handed' \ DOMAIN handed :
    /\ spans[id].nend = 0 /\ spans'[id].nend = 1
    /\ stack # <<>> /\ Top(stack) = id /\ stack' = Front(stack)
    /\ \A j \in Ids \ {id} :
         spans[j].inv = spans[id].inv =>
           /\ Rank(j) < Rank(id) => j \in DOMAIN handed
           /\ Rank(j) > Rank(id) => j \notin DOMAIN handed
    /\ spans[id].parent = 0 => Descendants(id) \subseteq DOMAIN handed

\* finished spans are exactly the enqueued ones, and the buffer keeps them
\* in the order they finished
BufferInFinishOrder ==
  /\ \A i \in Ids : Finished(i) <=> i \in DOMAIN handed
  /\ \A a, b \in 1..Len(buffer) :
       a < b => spans[buffer[a]].end_time <= spans[buffer[b]].end_time

\* C15: spans are enqueued in the order they finish, which is stack-pop
\* order: within one invocation validate_order, process_payment, then
\* schedule_shipment if opened, and the process_order root last, after all
\* its children.
C15_EnqueueOrder ==
  /\ []BufferInFinishOrder
  /\ [][EnqueueInPopOrder]_vars

\* a successful invocation has just enqueued its root after three children
C15_Witness ==
  /\ pc = "m_incr"
  /\ calls[Cur].result = "returned"
  /\ Cardinality(SpansOf(Cur)) = 4
  /\ SpansOf(Cur) \subseteq DOMAIN handed
  /\ \E r \in Named(Cur, "process_order") :
        \A j \in SpansOf(Cur) \ {r} : spans[j].end_time <= spans[r].end_time

\* ---- C16 ------------------------------------------------------------------
\* span ids are allocated in opening order: j > i means j was opened after i
OpenedAfter(j, i) == j > i

\* the span a step finishes is the top of the stack, the step pops it, and
\* every span opened after it is finished already
CloseIsPop ==
  \A i \in Ids :
    spans[i].nend = 0 /\ spans'[i].nend > 0 =>
      /\ stack # <<>> /\ Top(stack) = i
      /\ stack' = Front(stack)
      /\ \A j \in Ids : OpenedAfter(j, i) => Finished(j)

\* the stack lists open spans in opening order and no close was out of order
StackInOpeningOrder ==
  /\ ~logicError
  /\ \A a, b \in 1..Len(stack) : a < b => OpenedAfter(stack[b], stack[a])
  /\ \A a \in 1..Len(stack) : ~Finished(stack[a])

\* C16: every close pops the top of the context stack: no span is finished
\* while a span opened after it is still open, also during the unwinding of
\* a payment failure, and the not-top-of-stack error never happens.
C16_StrictLifo ==
  /\ []StackInOpeningOrder
  /\ [][CloseIsPop]_vars

\* payment failure unwinding: the payment span is closed, the root is the
\* only span left on the stack and is about to be closed
C16_Witness ==
  /\ pc = "po_exit"
  /\ exc = "Exception"
  /\ \E q \in Named(Cur, "process_payment") : Finished(q) /\ spans[q].exit = "Exception"
  /\ \E r \in Named(Cur, "process_order") : stack = <<r>>

\* ---- C17 ------------------------------------------------------------------
\* a span opened by the step has the span that was on top of the stack as
\* its parent (none if the stack was empty)
OpenedUnderTop ==
  Len(spans') > Len(spans) =>
    spans'[Len(spans')].parent = (IF stack = <<>> THEN 0 ELSE Top(stack))

\* roots are the process_order spans, each with a trace_id of its own; every
\* other span is a child of the process_order span of its invocation and has
\* its trace_id; invocations share no trace_id
TraceShape ==
  /\ \A i \in Ids :
       IF spans[i].name = "process_order"
         THEN /\ spans[i].parent = 0
              /\ \A j \in Ids \ {i} :
                   spans[j].parent = 0 => spans[j].trace_id # spans[i].trace_id
         ELSE /\ spans[i].parent \in Ids
              /\ spans[spans[i].parent].name = "process_order"
              /\ spans[spans[i].parent].inv = spans[i].inv
              /\ spans[spans[i].parent].trace_id = spans[i].trace_id
  /\ \A i, j \in Ids :
       spans[i].inv # spans[j].inv => spans[i].trace_id # spans[j].trace_id

\* C17: each span's parent is the top of the context stack at the time it
\* was opened: process_order spans are roots with fresh trace ids, the three
\* step spans are children of the process_order span of their invocation and
\* share its trace id, and two invocations share no trace id.
C17_ParentIsStackTop ==
  /\ []TraceShape
  /\ [][OpenedUnderTop]_vars

\* the second invocation has its root and three children, the first one is
\* complete
C17_Witness ==
  /\ Len(calls) = 2
  /\ pc = "ss_attr"
  /\ Cardinality(SpansOf(1)) >= 3
  /\ Cardinality(SpansOf(2)) = 4
  /\ \E r \in Named(2, "process_order") : spans[r].trace_id = 2

\* ---- C18 ------------------------------------------------------------------
\* invocations whose payment took the failure branch of line 71
FailedCalls == {k \in 1..Len(calls) : calls[k].branch = "fail"}

\* C18: when process_payment fails, the failure leaves the process_payment
\* scope and the process_order scope, so both spans finish with status
\* Error, while the validate_order span of that invocation, whose scope
\* ended without error, never has status Error.
C18_StatusPerScope ==
  \A k \in FailedCalls :
    /\ \A q \in Named(k, "process_payment") :
         Finished(q) => spans[q].exit # "none" /\ spans[q].status = "Error"
    /\ \A r \in Named(k, "process_order") :
         Finished(r) => spans[r].exit # "none" /\ spans[r].status = "Error"
    /\ \A v \in Named(k, "validate_order") :
         Finished(v) /\ spans[v].exit = "none" /\ spans[v].status # "Error"
    /\ calls[k].result = "raised" =>
         \A i \in SpansOf(k) : Finished(i)

\* the payment failure has reached the handler of main: payment and root
\* finished by the exception with Error, validate_order without
C18_Witness ==
  /\ pc = "m_except"
  /\ Cur \in FailedCalls
  /\ calls[Cur].result = "raised"
  /\ \E q \in Named(Cur, "process_payment") :
        spans[q].exit = "Exception" /\ spans[q].status = "Error"
  /\ \E r \in Named(Cur, "process_order") :
        spans[r].exit = "Exception" /\ spans[r].status = "Error"
  /\ \E v \in Named(Cur, "validate_order") : spans[v].status = "Ok"

\* ---- C19 ------------------------------------------------------------------
\* spans whose scope was left by the interrupt
Interrupted == {i \in Ids : spans[i].exit = KI}

\* C19: when provider.force_flush() is invoked after an interrupt, the
\* context stack is empty and every span ever opened is finished and
\* enqueued, also when the interrupt arrived in the middle of an invocation
\* with one or two spans open.
C19_AllFinishedBeforeFlush ==
  pc \in {"m_kbd", "m_flush"} =>
    /\ signalled
    /\ stack = <<>>
    /\ \A f \in Functions : span[f] = 0
    /\ \A i \in Ids : Finished(i) /\ i \in DOMAIN handed

\* the flush is about to be invoked after an interrupt that found two spans
\* open
C19_Witness ==
  /\ pc = "m_flush"
  /\ flushCalls = 0
  /\ calls # <<>>
  /\ calls[Cur].result = "interrupted"
  /\ Cardinality(Interrupted) = 2
  /\ Interrupted \subseteq DOMAIN handed

\* ---- C20 ------------------------------------------------------------------
\* iterations of the driver loop that have passed line 103
Counted ==
  IF pc \in {"m_call", "m_sleep"} THEN Len(calls)
  ELSE IF pc \in HandlerPcs \cup {"m_done"} THEN order_counter - 1
  ELSE Len(calls) - 1

\* C20: the order counter starts at 1 and grows by exactly 1 per driver-loop
\* iteration, after a success and after a failure alike: the n-th invocation
\* of process_order receives order number n, so order ids increase strictly,
\* none is used twice and none is skipped.
C20_OrderNumbers ==
  /\ order_counter = Counted + 1
  /\ order_counter \in {Len(calls), Len(calls) + 1}
  /\ \A k \in 1..Len(calls) : calls[k].order = k
  /\ \A k, l \in 1..Len(calls) :
       k # l => OrderId(calls[k].order) # OrderId(calls[l].order)

\* the second iteration is over, after a failed first one
C20_Witness ==
  /\ pc = "m_sleep"
  /\ Len(calls) = 2
  /\ calls[1].result = "raised"
  /\ calls[2].result = "returned"
  /\ order_counter = 3
  /\ OrderId(calls[2].order) = <<"ORD-", 0, 0, 0, 0, 2>>

=============================================================================
